---- MODULE Spec2Model ----
(***************************************************************************)
(* The in-memory pod-task registry of the kubernetes-mesos scheduler       *)
(* (inMemoryTaskRegistry): the two tables taskRegistry and podToTask, the  *)
(* ring of finished task ids, and the status reducer updateStatus.         *)
(*                                                                         *)
(* Every operation of the registry runs under k.rw from its first to its   *)
(* last statement, so Spec, SpecFlags, SpecGC, SpecPair and SpecPod take   *)
(* one step per call; SpecConc follows the threads through k.rw and the    *)
(* statements of a call.  SpecConfig is the scheduler's Config and its     *)
(* Read.                                                                   *)
(***************************************************************************)
EXTENDS Integers, Sequences, FiniteSets, TLC

\* ------------------------------------------------------------------ bounds
MaxTaskIds == 2     \* task ids are 1..MaxTaskIds
MaxRingSize == 1    \* the finished ring has 1..MaxRingSize slots

MaxFlagTaskIds == 1 \* SpecFlags: task ids are 1..MaxFlagTaskIds
MaxGCTaskIds == 4   \* SpecGC: task ids are 1..MaxGCTaskIds
MaxGCRingSize == 3  \* SpecGC: the finished ring has 1..MaxGCRingSize slots
MaxPairTaskIds == 2 \* SpecPair: task ids are 1..MaxPairTaskIds
MaxClock == 1       \* SpecPod: time.Now() runs from 0 to MaxClock
MaxFileLines == 1   \* SpecConfig: a [scheduler] section has 0..MaxFileLines lines
MaxThreads == 2     \* SpecConc: the callers are the threads 1..MaxThreads

TaskIds == 1 .. MaxTaskIds
RingSizes == 1 .. MaxRingSize
FlagTaskIds == 1 .. MaxFlagTaskIds
GCTaskIds == 1 .. MaxGCTaskIds
GCRingSizes == 1 .. MaxGCRingSize
PairTaskIds == 1 .. MaxPairTaskIds
Threads == 1 .. MaxThreads

\* SpecConc: the threads call the registry for the same task
ConcTaskIds == {1}

\* SpecPod follows the pod of one task through its status updates
PodTaskIds == {1}

\* the pod keys makePodKey hands out: PodPath/<namespace>/<pod id>
PodKeys == {"/pods/ns/a", "/pods/ns/b"}

\* the nil error
Nil == "nil"

\* the task id of no task: the Value of an empty ring slot, a nil *PodTask
NoTask == 0

\* ------------------------------------------------------------------ types
StatePending == "Pending"
StateRunning == "Running"
StateFinished == "Finished"
StateUnknown == "Unknown"

\* the mesos task states updateStatus switches on
TaskState ==
  {"TASK_STAGING", "TASK_STARTING", "TASK_RUNNING", "TASK_FINISHED",
   "TASK_FAILED", "TASK_KILLED", "TASK_LOST"}

\* api.PodPhase values of Pod.Status.Phase the registry sees
PodPending == "Pending"
PodRunning == "Running"

\* the container that defines the network namespace of a pod
NetContainerID == "net"

\* api.PodInfo values: container name -> container info (its PodIP)
PodInfos ==
  { [c \in {} |-> [PodIP |-> ""]],
    [c \in {"web"} |-> [PodIP |-> ""]],
    [c \in {NetContainerID} |-> [PodIP |-> ""]],
    [c \in {NetContainerID} |-> [PodIP |-> "10.0.0.7"]] }

\* TaskStatus.Data: absent, bytes that do not decode, or an encoded PodInfo
NoInfo == [c \in {} |-> [PodIP |-> ""]]

\* status.Data == nil
NoData == [json |-> "absent", info |-> NoInfo]

\* A blob that does not decode carries the entries json.Unmarshal had stored
\* in the map when it met the error.
DataBlobs ==
  {NoData}
    \cup {[json |-> "invalid", info |-> i] : i \in PodInfos}
    \cup {[json |-> "ok", info |-> i] : i \in PodInfos}

\* the blob of the normal lifecycle
NetData ==
  [json |-> "ok", info |-> [c \in {NetContainerID} |-> [PodIP |-> "10.0.0.7"]]]

\* A PodTask as the placement path hands it to register: the fields the
\* registry reads and writes.  A task is created in state Pending, with no
\* flag set and a pod that has no info and no IP yet.
newPodTask(id, key, t) ==
  [ID |-> id, podKey |-> key, State |-> StatePending, Deleted |-> FALSE,
   UpdatedTime |-> t, bindTime |-> 0,
   Phase |-> PodPending, Info |-> NoInfo, PodIP |-> ""]

\* the errors a caller may pipe through register
Errors == {Nil, "err"}

VARIABLES
  taskRegistry,   \* k.taskRegistry: task id -> PodTask (a partial map)
  podToTask,      \* k.podToTask: pod key -> task id (a partial map)
  ring,           \* the elements of the container/ring: slot -> Value
  tasksFinished,  \* k.tasksFinished: the slot the registry points at
  now,            \* time.Now()
  ret,            \* what the last call returned, or that it panicked
  recorded,       \* the ids handed to recordFinishedTask, oldest first
  last,           \* the call made last, and the two tables it found
  config,         \* the scheduler's *Config and what the last Read did
  rw,             \* k.rw: the thread that holds the write lock, the readers
  pc,             \* where each thread is in the call it makes
  wbuf            \* the locals of the call that holds the write lock

\* the threads and the lock
conc == <<rw, pc, wbuf>>

\* what the specifications with one step per call and no history leave alone
aside == <<last, config, conc>>

vars ==
  <<taskRegistry, podToTask, ring, tasksFinished, now, ret, recorded, last,
    config, rw, pc, wbuf>>
tables == <<taskRegistry, podToTask, ring, tasksFinished>>

\* ------------------------------------------------------------ map helpers
\* m[key] = value of a Go map
put(m, key, value) ==
  [x \in (DOMAIN m) \cup {key} |-> IF x = key THEN value ELSE m[x]]

\* delete(m, key) of a Go map: a missing key is tolerated
delete(m, key) == [x \in (DOMAIN m) \ {key} |-> m[x]]

emptyMap == [x \in {} |-> NoTask]

\* ------------------------------------------------------------ return values
\* a call returned: the StateType and the error it returned, if it has any
returned(state, err) == [state |-> state, err |-> err, panicked |-> FALSE]

\* a call panicked instead of returning
panicked == [state |-> Nil, err |-> Nil, panicked |-> TRUE]

\* ------------------------------------------------------------------- ring
\* r.Next() of container/ring
RingNext(slot) == (slot % Len(ring)) + 1

\* ring.New(n): n empty slots, the pointer on the first one
NewRing(n) == [i \in 1 .. n |-> NoTask]

\* ------------------------------------------------------------------- Init
\* The source builds the ring with defaultFinishedTasksSize (1024) slots;
\* the specifications build it with the few slots a check can fill.
NewInMemoryTaskRegistry(sizes) ==
  /\ taskRegistry = emptyMap
  /\ podToTask = emptyMap
  /\ \E n \in sizes : ring = NewRing(n)
  /\ tasksFinished = 1

\* ----------------------------------------------------------------- Config
\* the fields of Config, named by their gcfg keys
DurationKeys ==
  {"offer-ttl", "offer-linger-ttl", "listener-delay",
   "framework-id-refresh-interval", "initial-implicit-reconciliation-delay",
   "explicit-reconciliantion-max-backoff",
   "explicit-reconciliantion-abort-timeout", "initial-pod-backoff",
   "max-pod-backoff", "http-handler-timeout"}

IntKeys == {"updates-backlog"}

ConfigKeys == DurationKeys \cup IntKeys

\* the defaults, durations in seconds
Defaults ==
  [key \in ConfigKeys |->
     CASE key = "offer-ttl" -> 5
       [] key = "offer-linger-ttl" -> 120
       [] key = "listener-delay" -> 1
       [] key = "updates-backlog" -> 2048
       [] key = "framework-id-refresh-interval" -> 30
       [] key = "initial-implicit-reconciliation-delay" -> 15
       [] key = "explicit-reconciliantion-max-backoff" -> 120
       [] key = "explicit-reconciliantion-abort-timeout" -> 30
       [] key = "initial-pod-backoff" -> 1
       [] key = "max-pod-backoff" -> 60
       [] key = "http-handler-timeout" -> 10]

\* &Config{}
ZeroConfig == [key \in ConfigKeys |-> 0]

\* the text of a value: a decimal number and what follows it
Texts == {[n |-> n, unit |-> u] : n \in {7, 16}, u \in {"", "s", "m"}}

\* time.ParseDuration, in seconds: a number needs a unit
ParseDuration(text) ==
  CASE text.unit = "s" -> [d |-> text.n, err |-> Nil]
    [] text.unit = "m" -> [d |-> text.n * 60, err |-> Nil]
    [] OTHER -> [d |-> 0, err |-> "err"]

\* the int a line of the file sets: a number and nothing else
ParseInt(text) ==
  IF text.unit = ""
    THEN [d |-> text.n, err |-> Nil]
    ELSE [d |-> 0, err |-> "err"]

UnmarshalText(key, text) ==
  IF key \in DurationKeys THEN ParseDuration(text) ELSE ParseInt(text)

\* the lines "key = text" of a [scheduler] section
Lines == {[key |-> key, text |-> text] : key \in ConfigKeys, text \in Texts}

RECURSIVE FilesOf(_)
FilesOf(n) ==
  IF n = 0
    THEN {<< >>}
    ELSE LET shorter == FilesOf(n - 1)
         IN  shorter \cup {Append(f, l) : f \in shorter, l \in Lines}

Files == FilesOf(MaxFileLines)

\* gcfg.ReadInto: the lines are stored one after the other into the wrapped
\* Config, up to the first line whose text does not parse
RECURSIVE ReadInto(_, _)
ReadInto(wrapper, file) ==
  IF file = << >>
    THEN [Scheduler |-> wrapper, err |-> Nil]
    ELSE LET line == Head(file)
             v == UnmarshalText(line.key, line.text)
         IN  IF v.err = Nil
               THEN ReadInto([wrapper EXCEPT ![line.key] = v.d], Tail(file))
               ELSE [Scheduler |-> wrapper, err |-> v.err]

\* no Read was made yet
NoRead == [reader |-> "none", file |-> << >>, Scheduler |-> ZeroConfig, err |-> Nil]

\* no call was made yet
NoCall ==
  [op |-> "none", id |-> NoTask, key |-> "", data |-> NoData, twice |-> FALSE,
   taskRegistry |-> emptyMap, podToTask |-> emptyMap]

\* no thread holds the write lock
NoTables ==
  [taskRegistry |-> emptyMap, podToTask |-> emptyMap, ring |-> << >>,
   tasksFinished |-> 0, panic |-> FALSE]

NoWrite ==
  [op |-> "none", id |-> NoTask, key |-> "", status |-> "",
   state |-> StateUnknown, pre |-> NoTables, out |-> NoTables]

AsideInit ==
  /\ last = NoCall
  /\ config = [c |-> ZeroConfig, read |-> NoRead]
  /\ rw = [writer |-> 0, readers |-> {}, pending |-> {}, blocked |-> {}]
  /\ pc = [t \in Threads |-> "idle"]
  /\ wbuf = NoWrite

Init ==
  /\ NewInMemoryTaskRegistry(RingSizes)
  /\ now = 0
  /\ ret = returned(Nil, Nil)
  /\ recorded = << >>
  /\ AsideInit

\* --------------------------------------------------------------- register
\* mutant: the task is registered whatever err is
register_ignoresErr(task, err) ==
  /\ podToTask' = put(podToTask, task.podKey, task.ID)
  /\ taskRegistry' = put(taskRegistry, task.ID, task)
  /\ UNCHANGED <<ring, tasksFinished>>
  /\ ret' = returned(Nil, err)

register(task, err) ==
  /\ IF err = Nil
       THEN /\ podToTask' = put(podToTask, task.podKey, task.ID)
            /\ taskRegistry' = put(taskRegistry, task.ID, task)
       ELSE UNCHANGED <<podToTask, taskRegistry>>
  /\ UNCHANGED <<ring, tasksFinished>>
  /\ ret' = returned(Nil, err)

\* ------------------------------------------------------------- unregister
unregister(task) ==
  /\ podToTask' = delete(podToTask, task.podKey)
  /\ taskRegistry' = delete(taskRegistry, task.ID)
  /\ UNCHANGED <<ring, tasksFinished>>
  /\ ret' = returned(Nil, Nil)

\* ------------------------------------------------------------------- _get
\* the task of _get: the PodTask held under taskId, or the nil task
NilTask == [newPodTask(NoTask, "", 0) EXCEPT !.State = StateUnknown]

getTask(taskId) ==
  IF taskId \in DOMAIN taskRegistry THEN taskRegistry[taskId] ELSE NilTask

\* the state of _get
getState(taskId) ==
  IF taskId \in DOMAIN taskRegistry
    THEN taskRegistry[taskId].State
    ELSE StateUnknown

\* ------------------------------------------------------------ the handlers
\* A handler maps the registry it finds to the registry it leaves: the two
\* tables, the ring, the ring pointer, and whether it panicked.
same ==
  [taskRegistry |-> taskRegistry, podToTask |-> podToTask,
   ring |-> ring, tasksFinished |-> tasksFinished, panic |-> FALSE]

\* a nil pointer dereference, or an explicit panic(...)
panic == [same EXCEPT !.panic = TRUE]

\* a write through the *PodTask the registry holds under task.ID
store(task) == [same EXCEPT !.taskRegistry = put(taskRegistry, task.ID, task)]

handleTaskStaging(task, state) == same

handleTaskStarting(task, state) ==
  IF state = StatePending
    THEN store([task EXCEPT !.UpdatedTime = now, !.bindTime = now])
    ELSE same

\* json.Unmarshal(taskStatus.Data, &info)
Unmarshal(data) ==
  [err |-> IF data.json = "ok" THEN Nil ELSE "err", info |-> data.info]

\* mutant: the decoded entries are stored although the blob did not decode
fillRunningPodInfo_ignoresErr(task, data) ==
  LET t1 == [task EXCEPT !.Phase = PodRunning]
      dec == Unmarshal(data)
  IN  IF data.json # "absent"
        THEN LET t2 == [t1 EXCEPT !.Info = dec.info]
             IN  IF NetContainerID \in DOMAIN dec.info
                   THEN IF dec.info[NetContainerID].PodIP # ""
                          THEN [t2 EXCEPT
                                  !.PodIP = dec.info[NetContainerID].PodIP]
                          ELSE t2
                   ELSE t2
        ELSE t1

fillRunningPodInfo(task, data) ==
  LET t1 == [task EXCEPT !.Phase = PodRunning]
      dec == Unmarshal(data)
  IN  IF data.json # "absent"
        THEN IF dec.err = Nil
               THEN LET t2 == [t1 EXCEPT !.Info = dec.info]
                    IN  IF NetContainerID \in DOMAIN dec.info
                          THEN IF dec.info[NetContainerID].PodIP # ""
                                 THEN [t2 EXCEPT
                                         !.PodIP = dec.info[NetContainerID].PodIP]
                                 ELSE t2
                          ELSE t2
               ELSE t1
        ELSE t1

\* mutant: a RUNNING status for a Running task binds it anew
handleTaskRunning_rebinds(task, state, data) ==
  CASE state = StatePending ->
         store([fillRunningPodInfo([task EXCEPT !.UpdatedTime = now], data)
                  EXCEPT !.State = StateRunning])
    [] state = StateRunning ->
         store([task EXCEPT !.UpdatedTime = now, !.bindTime = now])
    [] state = StateFinished -> same
    [] OTHER -> IF task.ID = NoTask THEN panic ELSE same

\* mutant: the state switch is lost, a known task is always set Running
handleTaskRunning_noSwitch(task, state, data) ==
  IF task.ID = NoTask
    THEN panic
    ELSE store([fillRunningPodInfo([task EXCEPT !.UpdatedTime = now], data)
                  EXCEPT !.State = StateRunning])

handleTaskRunning(task, state, data) ==
  CASE state = StatePending ->
         store([fillRunningPodInfo([task EXCEPT !.UpdatedTime = now], data)
                  EXCEPT !.State = StateRunning])
    [] state = StateRunning -> store([task EXCEPT !.UpdatedTime = now])
    [] state = StateFinished -> same
    [] OTHER ->
         \* task.ID is read for the log line: task is nil when the id is unknown
         IF task.ID = NoTask THEN panic ELSE same

\* mutant: the slot is overwritten without collecting the task it held
recordFinishedTask_noGC(reg, taskId) ==
  LET slot == RingNext(tasksFinished)
  IN  [taskRegistry |-> reg,
       ring |-> [ring EXCEPT ![slot] = taskId],
       slot |-> slot]

\* mutant: the ring pointer is not advanced before the slot is taken
recordFinishedTask_noNext(reg, taskId) ==
  LET slot == tasksFinished
      gctaskId == ring[slot]
      gc == /\ gctaskId # NoTask
            /\ gctaskId \in DOMAIN reg
            /\ reg[gctaskId].State = StateFinished
  IN  [taskRegistry |-> IF gc THEN delete(reg, gctaskId) ELSE reg,
       ring |-> [ring EXCEPT ![slot] = taskId],
       slot |-> slot]

\* k.recordFinishedTask(taskId) on the task table reg
recordFinishedTask(reg, taskId) ==
  LET slot == RingNext(tasksFinished)
      gctaskId == ring[slot]
      gc == /\ gctaskId # NoTask
            /\ gctaskId \in DOMAIN reg
            /\ reg[gctaskId].State = StateFinished
  IN  [taskRegistry |-> IF gc THEN delete(reg, gctaskId) ELSE reg,
       ring |-> [ring EXCEPT ![slot] = taskId],
       slot |-> slot]

\* mutant: the id is recorded in the ring while the task stays Running
finishRunning_staysRunning(task) ==
  LET rec == recordFinishedTask(taskRegistry, task.ID)
  IN  [taskRegistry |-> rec.taskRegistry,
       podToTask |-> delete(podToTask, task.podKey),
       ring |-> rec.ring,
       tasksFinished |-> rec.slot,
       panic |-> FALSE]

\* the Running branch of handleTaskFinished
finishRunning(task) ==
  LET finishedTask == [task EXCEPT !.State = StateFinished,
                                   !.UpdatedTime = now]
      rec == recordFinishedTask(put(taskRegistry, task.ID, finishedTask),
                                task.ID)
  IN  [taskRegistry |-> rec.taskRegistry,
       podToTask |-> delete(podToTask, task.podKey),
       ring |-> rec.ring,
       tasksFinished |-> rec.slot,
       panic |-> FALSE]

\* mutant: the pod key of the finished task stays in podToTask
handleTaskFinished_keepsPod(task, state) ==
  CASE state = StatePending -> panic
    [] state = StateRunning ->
         [finishRunning(task) EXCEPT !.podToTask = podToTask]
    [] OTHER -> same

\* mutant: a Pending task is finished like a Running one
handleTaskFinished_noPanic(task, state) ==
  CASE state = StatePending -> finishRunning(task)
    [] state = StateRunning -> finishRunning(task)
    [] OTHER -> same

handleTaskFinished(task, state) ==
  CASE state = StatePending -> panic
    [] state = StateRunning -> finishRunning(task)
    [] OTHER -> same

\* the two deletes of the abnormal terminations
deleteBoth(task) ==
  [same EXCEPT !.taskRegistry = delete(taskRegistry, task.ID),
               !.podToTask = delete(podToTask, task.podKey)]

handleTaskFailed(task, state) ==
  CASE state = StatePending -> deleteBoth(task)
    [] state = StateRunning -> deleteBoth(task)
    [] OTHER -> same

\* mutant: a kill that was asked for leaves the entries in place
handleTaskKilled_skipsDeleted(task, state) ==
  IF state \in {StatePending, StateRunning} /\ ~task.Deleted
    THEN deleteBoth(task)
    ELSE same

handleTaskKilled(task, state) ==
  IF state \in {StatePending, StateRunning} THEN deleteBoth(task) ELSE same

handleTaskLost(task, state) ==
  IF state \in {StateRunning, StatePending} THEN deleteBoth(task) ELSE same

\* ----------------------------------------------------------- updateStatus
dispatch(task, state, status, data) ==
  CASE status = "TASK_STAGING" -> handleTaskStaging(task, state)
    [] status = "TASK_STARTING" -> handleTaskStarting(task, state)
    [] status = "TASK_RUNNING" -> handleTaskRunning(task, state, data)
    [] status = "TASK_FINISHED" -> handleTaskFinished(task, state)
    [] status = "TASK_FAILED" -> handleTaskFailed(task, state)
    [] status = "TASK_KILLED" -> handleTaskKilled(task, state)
    [] status = "TASK_LOST" -> handleTaskLost(task, state)
    [] OTHER -> same

updateStatus(taskId, status, data) ==
  LET task == getTask(taskId)
      state == getState(taskId)
      out == dispatch(task, state, status, data)
  IN  /\ taskRegistry' = out.taskRegistry
      /\ podToTask' = out.podToTask
      /\ ring' = out.ring
      /\ tasksFinished' = out.tasksFinished
      /\ ret' = IF out.panic
                  THEN panicked
                  ELSE returned(state, Nil)

\* ------------------------------------------------------------------- Spec
\* The calls arrive one at a time, with any task, pod key and status.
RegisterOf(ids) ==
  /\ \/ \E id \in ids, key \in PodKeys :
          register(newPodTask(id, key, now), Nil)
     \/ \E err \in Errors \ {Nil} : register(NilTask, err)
  /\ UNCHANGED <<now, recorded>>

\* The caller passes the task the registry holds under the id, or a task
\* the registry no longer holds.
UnregisterOf(ids) ==
  \E id \in ids, key \in PodKeys :
    /\ id \in DOMAIN taskRegistry => taskRegistry[id].podKey = key
    /\ unregister(newPodTask(id, key, now))
    /\ UNCHANGED <<now, recorded>>

UpdateStatusOf(ids) ==
  \E id \in ids, status \in TaskState :
    /\ updateStatus(id, status, NetData)
    /\ UNCHANGED <<now, recorded>>

Register == RegisterOf(TaskIds) /\ UNCHANGED aside

Unregister == UnregisterOf(TaskIds) /\ UNCHANGED aside

UpdateStatus == UpdateStatusOf(TaskIds) /\ UNCHANGED aside

Next == Register \/ Unregister \/ UpdateStatus

Spec == Init /\ [][Next]_vars

\* -------------------------------------------------------------- SpecFlags
\* Spec with the deleter, which marks tasks the registry holds.
FlagRegister == RegisterOf(FlagTaskIds) /\ UNCHANGED aside

FlagUnregister == UnregisterOf(FlagTaskIds) /\ UNCHANGED aside

FlagUpdateStatus == UpdateStatusOf(FlagTaskIds) /\ UNCHANGED aside

\* task.Set(Deleted)
SetDeleted ==
  \E id \in DOMAIN taskRegistry :
    /\ ~taskRegistry[id].Deleted
    /\ taskRegistry' = [taskRegistry EXCEPT ![id].Deleted = TRUE]
    /\ UNCHANGED <<podToTask, ring, tasksFinished, now, ret, recorded, aside>>

NextFlags == FlagRegister \/ FlagUnregister \/ FlagUpdateStatus \/ SetDeleted

SpecFlags == Init /\ [][NextFlags]_vars

\* ----------------------------------------------------------------- SpecGC
\* Tasks with pairwise distinct ids run and finish, or are lost: every task
\* id is registered for a pod that has no task, and no id is registered
\* again once it was recorded as finished.  recorded keeps the order of the
\* recordings.
Range(seq) == {seq[i] : i \in DOMAIN seq}

GCInit ==
  /\ AsideInit
  /\ NewInMemoryTaskRegistry(GCRingSizes)
  /\ now = 0
  /\ ret = returned(Nil, Nil)
  /\ recorded = << >>

GCRegister ==
  \E id \in GCTaskIds, key \in PodKeys :
    /\ id \notin DOMAIN taskRegistry
    /\ id \notin Range(recorded)
    /\ key \notin DOMAIN podToTask
    /\ register(newPodTask(id, key, now), Nil)
    /\ UNCHANGED <<now, recorded, aside>>

GCUpdateStatus ==
  \E id \in GCTaskIds, status \in {"TASK_RUNNING", "TASK_FINISHED", "TASK_LOST"} :
    /\ updateStatus(id, status, NetData)
    /\ recorded' = IF getState(id) = StateRunning /\ status = "TASK_FINISHED"
                     THEN Append(recorded, id)
                     ELSE recorded
    /\ UNCHANGED <<now, aside>>

GCNext == GCRegister \/ GCUpdateStatus

SpecGC == GCInit /\ [][GCNext]_vars

\* --------------------------------------------------------------- SpecPair
\* The calls of Spec, with the register call remembered until the next call:
\* last holds the task it registered and the two tables it found.
PairRegister ==
  \E id \in PairTaskIds, key \in PodKeys :
    /\ register(newPodTask(id, key, now), Nil)
    /\ last' = [NoCall EXCEPT !.op = "register", !.id = id, !.key = key,
                              !.taskRegistry = taskRegistry,
                              !.podToTask = podToTask]
    /\ UNCHANGED <<now, recorded, config, conc>>

PairUnregister ==
  /\ UnregisterOf(PairTaskIds)
  /\ last' = NoCall
  /\ UNCHANGED <<config, conc>>

PairUpdateStatus ==
  /\ UpdateStatusOf(PairTaskIds)
  /\ last' = NoCall
  /\ UNCHANGED <<config, conc>>

PairNext == PairRegister \/ PairUnregister \/ PairUpdateStatus

SpecPair == Init /\ [][PairNext]_vars

\* ---------------------------------------------------------------- SpecPod
\* The status updates carry any data blob and the clock advances between
\* the calls; last holds the status update made last and whether the update
\* before it was the same one.
PodRegister ==
  RegisterOf(PodTaskIds) /\ last' = NoCall /\ UNCHANGED <<config, conc>>

PodUnregister ==
  UnregisterOf(PodTaskIds) /\ last' = NoCall /\ UNCHANGED <<config, conc>>

PodUpdateStatus ==
  \E id \in PodTaskIds, status \in TaskState, data \in DataBlobs :
    /\ status # "TASK_RUNNING" => data = NoData
    /\ updateStatus(id, status, data)
    /\ last' = [NoCall EXCEPT !.op = status, !.id = id, !.data = data,
                              !.twice = /\ last.op = status
                                        /\ last.id = id
                                        /\ last.data = data]
    /\ UNCHANGED <<now, recorded, config, conc>>

\* time passes between two calls
Tick ==
  /\ now < MaxClock
  /\ now' = now + 1
  /\ UNCHANGED <<tables, ret, recorded, last, config, conc>>

PodNext == PodRegister \/ PodUnregister \/ PodUpdateStatus \/ Tick

SpecPod == Init /\ [][PodNext]_vars

\* ------------------------------------------------------------- SpecConfig
\* c.SetDefaults(), the whole of CreateDefaultConfig after c := &Config{}
SetDefaults ==
  /\ config' = [config EXCEPT !.c = Defaults]
  /\ UNCHANGED <<tables, now, ret, recorded, last, conc>>

\* c.Read(configReader): the wrapper holds a copy of *c
Read(reader, file) ==
  LET wrapper == config.c
      res == IF reader = "nil"
               THEN [Scheduler |-> wrapper, err |-> Nil]
               ELSE ReadInto(wrapper, file)
  IN  config' =
        [c |-> config.c,
         read |-> [reader |-> reader, file |-> file,
                   Scheduler |-> res.Scheduler, err |-> res.err]]

ReadFile ==
  /\ \/ \E file \in Files : Read("file", file)
     \/ Read("nil", << >>)
  /\ UNCHANGED <<tables, now, ret, recorded, last, conc>>

ConfigNext == SetDefaults \/ ReadFile

SpecConfig == Init /\ [][ConfigNext]_vars

\* --------------------------------------------------------------- SpecConc
\* Several threads call the registry.  A call that writes takes k.rw.Lock(),
\* runs its statements one group at a time and leaves through its deferred
\* Unlock; a call that reads takes k.rw.RLock() and leaves through its
\* deferred RUnlock.  The caller of a call that panics recovers; last holds
\* the status update that panicked until the next call that writes returns,
\* and ret holds whether the call panicked, not the task and state it
\* returned.
\*
\* k.rw is a sync.RWMutex: a thread that has called Lock keeps the readers
\* that arrive after it waiting, and Unlock admits the readers that wait
\* before the next writer.

\* k.rw.Lock() is called
LockCall(t) ==
  rw' = [rw EXCEPT !.pending = @ \cup {t}]

\* k.rw.Lock() returns
Lock(t) ==
  /\ t \in rw.pending
  /\ rw.writer = 0
  /\ rw.readers = {}
  /\ rw' = [rw EXCEPT !.writer = t, !.pending = @ \ {t}]

\* mutant: a reader is admitted while a thread holds the write lock
RLock_ignoresWriter(t) ==
  rw' = [rw EXCEPT !.readers = @ \cup {t}]

\* k.rw.RLock(): the reader is admitted, or it waits for the next Unlock
RLock(t) ==
  rw' = IF rw.writer = 0 /\ rw.pending = {}
          THEN [rw EXCEPT !.readers = @ \cup {t}]
          ELSE [rw EXCEPT !.blocked = @ \cup {t}]

\* mutant: Unlock is the last statement of the call, a panic skips it
Unlock_notDeferred(t, panicking) ==
  rw' = IF panicking
          THEN rw
          ELSE [rw EXCEPT !.writer = 0, !.readers = rw.blocked, !.blocked = {}]

\* defer k.rw.Unlock(): runs when the call returns and when it panics
Unlock(t, panicking) ==
  rw' = [rw EXCEPT !.writer = 0, !.readers = rw.blocked, !.blocked = {}]

\* defer k.rw.RUnlock()
RUnlock(t) ==
  rw' = [rw EXCEPT !.readers = @ \ {t}]

\* the calls that write, with a nil err for register
WriteCalls ==
  {[NoWrite EXCEPT !.op = op, !.id = id, !.key = key] :
     op \in {"register", "unregister"}, id \in ConcTaskIds, key \in PodKeys}
    \cup {[NoWrite EXCEPT !.op = "updateStatus", !.id = id, !.status = status] :
            id \in ConcTaskIds, status \in TaskState}

\* what the statements of a call write, from the tables they find
writes(call) ==
  CASE call.op = "register" ->
         [same EXCEPT !.podToTask = put(podToTask, call.key, call.id),
                      !.taskRegistry =
                        put(taskRegistry, call.id,
                            newPodTask(call.id, call.key, now))]
    [] call.op = "unregister" ->
         [same EXCEPT !.podToTask = delete(podToTask, call.key),
                      !.taskRegistry = delete(taskRegistry, call.id)]
    [] OTHER ->
         dispatch(getTask(call.id), getState(call.id), call.status, NetData)

\* register, unregister and handleTaskFinished write podToTask first; the
\* other handlers write taskRegistry first
PodToTaskFirst(call) ==
  call.op \in {"register", "unregister"} \/ call.status = "TASK_FINISHED"

\* a thread calls register, unregister or updateStatus
CallWrite(t) ==
  /\ pc[t] = "idle"
  /\ LockCall(t)
  /\ pc' = [pc EXCEPT ![t] = "Lock"]
  /\ UNCHANGED <<tables, now, ret, recorded, last, config, wbuf>>

\* a thread calls get, taskForPod or list
CallRead(t) ==
  /\ pc[t] = "idle"
  /\ RLock(t)
  /\ pc' = [pc EXCEPT ![t] = IF t \in rw'.readers THEN "reading" ELSE "RLock"]
  /\ UNCHANGED <<tables, now, ret, recorded, last, config, wbuf>>

\* register(task, err) with an error: the call returns without the lock
RegisterError(t) ==
  /\ pc[t] = "idle"
  /\ \E err \in Errors \ {Nil} : register(NilTask, err)
  /\ UNCHANGED <<now, recorded, last, config, conc>>

\* the call got the write lock
Enter(t) ==
  /\ pc[t] = "Lock"
  /\ Lock(t)
  /\ \E call \in WriteCalls :
       /\ (call.op = "unregister" /\ call.id \in DOMAIN taskRegistry)
            => taskRegistry[call.id].podKey = call.key
       /\ wbuf' = [call EXCEPT !.pre = same]
  /\ pc' = [pc EXCEPT ![t] = "locked"]
  /\ UNCHANGED <<tables, now, ret, recorded, last, config>>

\* the first write of the call, or its panic
FirstWrite(t) ==
  /\ pc[t] = "locked"
  /\ LET out == writes(wbuf)
     IN  /\ wbuf' = [wbuf EXCEPT !.out = out, !.state = getState(wbuf.id)]
         /\ IF out.panic
              THEN /\ pc' = [pc EXCEPT ![t] = "panicking"]
                   /\ UNCHANGED tables
              ELSE /\ pc' = [pc EXCEPT ![t] = "mid"]
                   /\ IF PodToTaskFirst(wbuf)
                        THEN /\ podToTask' = out.podToTask
                             /\ UNCHANGED <<taskRegistry, ring, tasksFinished>>
                        ELSE /\ taskRegistry' = out.taskRegistry
                             /\ UNCHANGED <<podToTask, ring, tasksFinished>>
  /\ UNCHANGED <<now, ret, recorded, last, config, rw>>

\* the other writes of the call
SecondWrite(t) ==
  /\ pc[t] = "mid"
  /\ taskRegistry' = wbuf.out.taskRegistry
  /\ podToTask' = wbuf.out.podToTask
  /\ ring' = wbuf.out.ring
  /\ tasksFinished' = wbuf.out.tasksFinished
  /\ pc' = [pc EXCEPT ![t] = "unlock"]
  /\ UNCHANGED <<now, ret, recorded, last, config, rw, wbuf>>

\* the call leaves through its deferred Unlock, returning or panicking
Exit(t) ==
  /\ pc[t] \in {"unlock", "panicking"}
  /\ Unlock(t, pc[t] = "panicking")
  /\ ret' = IF pc[t] = "panicking" THEN panicked ELSE returned(Nil, Nil)
  /\ last' = IF pc[t] = "panicking"
               THEN [NoCall EXCEPT !.op = wbuf.status, !.id = wbuf.id]
               ELSE NoCall
  /\ wbuf' = NoWrite
  /\ pc' = [u \in Threads |->
              CASE u = t -> "idle"
                [] u \in rw'.readers -> "reading"
                [] OTHER -> pc[u]]
  /\ UNCHANGED <<tables, now, recorded, config>>

\* the call has read the tables and leaves through its deferred RUnlock
ExitRead(t) ==
  /\ pc[t] = "reading"
  /\ RUnlock(t)
  /\ pc' = [pc EXCEPT ![t] = "idle"]
  /\ UNCHANGED <<tables, now, ret, recorded, last, config, wbuf>>

ConcNext ==
  \E t \in Threads :
    \/ CallWrite(t)
    \/ CallRead(t)
    \/ RegisterError(t)
    \/ Enter(t)
    \/ FirstWrite(t)
    \/ SecondWrite(t)
    \/ Exit(t)
    \/ ExitRead(t)

\* the registry of SpecConc has a ring of one slot
ConcInit ==
  /\ NewInMemoryTaskRegistry({1})
  /\ now = 0
  /\ ret = returned(Nil, Nil)
  /\ recorded = << >>
  /\ AsideInit

SpecConc == ConcInit /\ [][ConcNext]_vars

\* A thread inside a call keeps running, and the write lock is handed to the
\* threads that wait for it in turn.
SpecConcFair ==
  /\ SpecConc
  /\ \A t \in Threads :
       /\ WF_vars(FirstWrite(t) \/ SecondWrite(t) \/ Exit(t) \/ ExitRead(t))
       /\ SF_vars(Enter(t))

\* ----------------------------------------------------------------- claims
Tasks == DOMAIN taskRegistry
Pods == DOMAIN podToTask
Live == {id \in Tasks : taskRegistry[id].State \in {StatePending, StateRunning}}
Finished == {id \in Tasks : taskRegistry[id].State = StateFinished}

\* a step that is the call updateStatus(id, status)
StatusStep(id, status) == updateStatus(id, status, NetData)

\* C1: every pod key of podToTask is mapped to a task that tasks holds and
\* whose podKey is that pod key.
C1_PodToTaskConsistent ==
  \A p \in Pods :
    /\ podToTask[p] \in Tasks
    /\ taskRegistry[podToTask[p]].podKey = p

\* C2: every Pending or Running task has exactly one entry in podToTask:
\* its own pod key, mapped to its own id.
C2_LiveTaskHasOneEntry ==
  \A id \in Live :
    {p \in Pods : podToTask[p] = id} = {taskRegistry[id].podKey}

\* C3 as claimed: the pod key of a Finished task is no key of podToTask.
C3_FinishedPodKeyAbsent ==
  \A id \in Finished : taskRegistry[id].podKey \notin Pods

\* C3 amended: the pod key of a Finished task is not mapped to that task;
\* it is absent from podToTask or mapped to a task registered later.
C3_FinishedNotMapped ==
  \A id \in Finished :
    taskRegistry[id].podKey \in Pods => podToTask[taskRegistry[id].podKey] # id

\* a Finished task is still held while its pod runs a newly registered task
C3_Rescheduled ==
  \E id \in Finished :
    /\ taskRegistry[id].podKey \in Pods
    /\ podToTask[taskRegistry[id].podKey] \in Live

\* C4: the number of Finished tasks held in tasks never exceeds the
\* capacity of the finished ring.
C4_FinishedBounded == Cardinality(Finished) <= Len(ring)

\* the ring is saturated with Finished tasks and an older task is gone
C4_Saturated ==
  /\ Cardinality(Finished) = Len(ring)
  /\ \A slot \in DOMAIN ring : ring[slot] \in Finished
  /\ ret.state = StateRunning
  /\ Tasks # TaskIds

\* C5: register(task, nil) for a task id or pod key that is already
\* present fails with Duplicate and leaves both tables as they were.
C5_DuplicateRejected ==
  [][\A id \in TaskIds, key \in PodKeys :
       (/\ id \in Tasks \/ key \in Pods
        /\ register(newPodTask(id, key, now), Nil))
         => /\ ret'.err = "Duplicate"
            /\ UNCHANGED <<taskRegistry, podToTask>>]_vars

\* C6: a FINISHED status for a Pending task panics and leaves the task
\* Pending.
C6_PendingFinishedPanics ==
  [][\A id \in Tasks :
       (getState(id) = StatePending /\ StatusStep(id, "TASK_FINISHED"))
         => /\ ret'.panicked
            /\ id \in DOMAIN taskRegistry'
            /\ taskRegistry'[id].State = StatePending]_vars

\* the last call panicked although every task id is known: it was a
\* FINISHED status for one of the Pending tasks
C6_Panicked ==
  /\ ret.panicked
  /\ Tasks = TaskIds
  /\ \A id \in Tasks : taskRegistry[id].State = StatePending

StateRank(state) ==
  CASE state = StatePending -> 1
    [] state = StateRunning -> 2
    [] state = StateFinished -> 3
    [] OTHER -> 0

\* C7: no updateStatus call moves a task that stays in tasks backwards in
\* the order Pending < Running < Finished: a step that moves one backwards
\* is no updateStatus call.
C7_StateMonotone ==
  [][\/ \A t \in Tasks \cap DOMAIN taskRegistry' :
          StateRank(taskRegistry'[t].State) >= StateRank(taskRegistry[t].State)
     \/ \A id \in TaskIds, status \in TaskState : ~StatusStep(id, status)
    ]_vars

\* a status arrived for a task that was Finished, and the task is still
\* Finished
C7_LateStatus ==
  /\ ret.state = StateFinished
  /\ Finished # {}

\* C8: a FINISHED status for a Running task T sets T Finished, removes T's
\* pod key from podToTask, keeps tasks[T] and records T in the ring slot
\* the registry then points at (the only used slot for the first one).
C8_FinishedKeepsTask ==
  [][\A id \in Tasks :
       (getState(id) = StateRunning /\ StatusStep(id, "TASK_FINISHED"))
         => /\ id \in DOMAIN taskRegistry'
            /\ taskRegistry'[id].State = StateFinished
            /\ taskRegistry[id].podKey \notin DOMAIN podToTask'
            /\ ring'[tasksFinished'] = id
            /\ (\A slot \in DOMAIN ring : ring[slot] = NoTask)
                 => \A slot \in DOMAIN ring :
                      ring'[slot] # NoTask <=> slot = tasksFinished'
    ]_vars

\* C9: a FAILED, KILLED or LOST status for a Pending or Running task
\* removes its tasks entry and its podToTask entry in that call, whether
\* or not the task carries the Deleted flag.
C9_AbnormalRemovesBoth ==
  [][\A id \in Tasks, status \in {"TASK_FAILED", "TASK_KILLED", "TASK_LOST"} :
       (getState(id) \in {StatePending, StateRunning} /\ StatusStep(id, status))
         => /\ id \notin DOMAIN taskRegistry'
            /\ taskRegistry[id].podKey \notin DOMAIN podToTask'
    ]_vars

\* a status found a Pending task and left both tables empty
C9_Removed ==
  /\ ret.state = StatePending
  /\ Tasks = {}
  /\ Pods = {}

\* C10: with pairwise distinct ids recorded into a ring of N slots, a
\* recording removes from tasks exactly the id recorded N recordings
\* before it, if there is one (the first id on the (N+1)-th recording), and
\* the N most recently recorded tasks are the Finished tasks held.
C10_RingAgesOutOldest ==
  [][recorded' # recorded
       => LET n == Len(ring)
              k == Len(recorded')
          IN  /\ DOMAIN taskRegistry' =
                   IF k > n THEN Tasks \ {recorded'[k - n]} ELSE Tasks
              /\ \A i \in 1 .. k :
                   recorded'[i] \in DOMAIN taskRegistry' <=> i > k - n
              /\ \A i \in 1 .. k : \A j \in 1 .. k :
                   recorded'[i] = recorded'[j] => i = j
    ]_vars

\* one more task than the ring has slots was recorded: the first is gone
C10_FirstAgedOut ==
  /\ Len(ring) > 1
  /\ Len(recorded) = Len(ring) + 1
  /\ recorded[1] \notin Tasks
  /\ \A i \in 2 .. Len(recorded) : recorded[i] \in Finished

\* C12 as claimed: updateStatus for an id that tasks does not hold returns
\* (nil, Unknown) and changes neither table nor the ring, for each of the
\* seven status kinds.
C12_UnknownIsNoOp ==
  [][\A id \in TaskIds \ Tasks, status \in TaskState :
       StatusStep(id, status)
         => /\ ret' = returned(StateUnknown, Nil)
            /\ UNCHANGED tables]_vars

\* C15 as claimed: no id stored in the finished ring is the id of a task
\* that is Pending or Running in tasks.
RingIds == {ring[slot] : slot \in DOMAIN ring} \ {NoTask}

C15_RingIdsNotLive == RingIds \cap Live = {}

\* C15 amended: an id of the ring is the id of a Pending or Running task
\* only from the register call that registers the id again; no updateStatus
\* or unregister call makes a ring id live.
C15_RingIdLiveOnlyByRegister ==
  [][\A id \in TaskIds :
       \/ id \notin {ring'[slot] : slot \in DOMAIN ring'}
       \/ id \notin DOMAIN taskRegistry'
       \/ taskRegistry'[id].State \notin {StatePending, StateRunning}
       \/ id \in RingIds \cap Live
       \/ \E key \in PodKeys : register(newPodTask(id, key, now), Nil)
    ]_vars

\* the ring holds an id whose task finished and that runs again
C15_RecordedIdRunsAgain ==
  \E id \in RingIds : id \in Tasks /\ taskRegistry[id].State = StateRunning

\* C17: register(task, err) with an error returns the error and leaves the
\* two tables and the ring as they were.
C17_ErrorPipedThrough ==
  [][\A err \in Errors \ {Nil} :
       (\/ register(NilTask, err)
        \/ \E id \in TaskIds, key \in PodKeys :
             register(newPodTask(id, key, now), err))
         => /\ ret'.err = err
            /\ ~ret'.panicked
            /\ UNCHANGED tables]_vars

\* a register call returned its error to a registry that holds a task
C17_ErrorReturned ==
  /\ ret.err = "err"
  /\ Tasks # {}
  /\ Pods # {}

\* C19 as claimed: an updateStatus call for a task leaves the tasks entry
\* and the podToTask entry of every other Pending or Running task as they
\* were.
C19_OtherLiveTasksUntouched ==
  [][\/ \A other \in Live :
          /\ other \in DOMAIN taskRegistry'
          /\ taskRegistry'[other] = taskRegistry[other]
          /\ \A p \in Pods :
               podToTask[p] = other => p \in DOMAIN podToTask' /\ podToTask'[p] = other
     \/ \A id \in TaskIds, status \in TaskState :
          ~StatusStep(id, status)
            \/ \A other \in Live \ {id} :
                 /\ other \in DOMAIN taskRegistry'
                 /\ taskRegistry'[other] = taskRegistry[other]
                 /\ \A p \in Pods :
                      podToTask[p] = other
                        => p \in DOMAIN podToTask' /\ podToTask'[p] = other
    ]_vars

\* C11 as claimed: unregister(t) called right after register(t) leaves
\* tasks and podToTask as the register call found them, whatever they held.
C11_RegisterUnregisterRestores ==
  [][\A id \in PairTaskIds, key \in PodKeys :
       (/\ last.op = "register"
        /\ last.id = id
        /\ last.key = key
        /\ unregister(newPodTask(id, key, now)))
         => /\ taskRegistry' = last.taskRegistry
            /\ podToTask' = last.podToTask]_vars

\* C13: a RUNNING status for a Pending task sets it Running whatever the
\* data blob is; the pod IP becomes the PodIP of the blob's "net" entry when
\* the blob decodes and that PodIP is not empty, and is left alone otherwise;
\* a blob that does not decode leaves the pod info alone.
HasNetPodIP(data) ==
  /\ data.json = "ok"
  /\ NetContainerID \in DOMAIN data.info
  /\ data.info[NetContainerID].PodIP # ""

C13_RunningWhateverTheData ==
  [][\A id \in PodTaskIds, data \in DataBlobs :
       (getState(id) = StatePending /\ updateStatus(id, "TASK_RUNNING", data))
         => /\ id \in DOMAIN taskRegistry'
            /\ taskRegistry'[id].State = StateRunning
            /\ taskRegistry'[id].PodIP =
                 IF HasNetPodIP(data)
                   THEN data.info[NetContainerID].PodIP
                   ELSE taskRegistry[id].PodIP
            /\ data.json = "invalid"
                 => taskRegistry'[id].Info = taskRegistry[id].Info]_vars

\* a Pending task was set Running by a blob that did not decode after the
\* decoder had stored a "net" entry with a PodIP
C13_RunningOnBadData ==
  /\ last.op = "TASK_RUNNING"
  /\ last.data.json = "invalid"
  /\ NetContainerID \in DOMAIN last.data.info
  /\ last.data.info[NetContainerID].PodIP # ""
  /\ ret = returned(StatePending, Nil)
  /\ last.id \in Tasks
  /\ taskRegistry[last.id].State = StateRunning
  /\ taskRegistry[last.id].PodIP = ""

\* C18: the second of two equal RUNNING status updates in a row leaves
\* podToTask, the ring and every field of every task but UpdatedTime as the
\* first left them.
ButUpdatedTime(reg) == [id \in DOMAIN reg |-> [reg[id] EXCEPT !.UpdatedTime = 0]]

C18_RunningTwice ==
  [][\A id \in PodTaskIds, data \in DataBlobs :
       (/\ last.op = "TASK_RUNNING"
        /\ last.id = id
        /\ last.data = data
        /\ updateStatus(id, "TASK_RUNNING", data))
         => /\ ButUpdatedTime(taskRegistry') = ButUpdatedTime(taskRegistry)
            /\ UNCHANGED <<podToTask, ring, tasksFinished>>]_vars

\* the same RUNNING status was applied twice to a task, the second time
\* later than the first
C18_AppliedTwice ==
  /\ last.op = "TASK_RUNNING"
  /\ last.twice
  /\ ret = returned(StateRunning, Nil)
  /\ last.id \in Tasks
  /\ taskRegistry[last.id].State = StateRunning
  /\ taskRegistry[last.id].UpdatedTime > 0

\* C16 as claimed: after a Read that succeeds, every field the file sets
\* holds the file's value in the Config Read was called on, and every other
\* field holds what it held before (its default).
Sets(file, key) == \E i \in DOMAIN file : file[i].key = key

C16_ReadStoresFileValues ==
  [][\A file \in Files :
       (Read("file", file) /\ config'.read.err = Nil)
         => /\ \A i \in DOMAIN file :
                 (\A j \in DOMAIN file : j > i => file[j].key # file[i].key)
                   => config'.c[file[i].key] =
                        UnmarshalText(file[i].key, file[i].text).d
            /\ \A key \in ConfigKeys :
                 ~Sets(file, key) => config'.c[key] = config.c[key]]_vars

\* C14: no thread reads the tables while another thread is between its
\* Lock and its Unlock, no two threads are there at a time, and every thread
\* that called the registry returns from its call.
Writing(t) == pc[t] \in {"locked", "mid", "unlock", "panicking"}

C14_AtomicAndReleased ==
  /\ [](\A t \in Threads :
          (pc[t] = "reading" \/ Writing(t))
            => \A u \in Threads \ {t} : ~Writing(u))
  /\ \A t \in Threads : (pc[t] # "idle") ~> (pc[t] = "idle")

\* a register call has written podToTask and not yet tasks, and a reader
\* waits for the lock
C14_ReaderKeptOut ==
  \E t \in Threads, u \in Threads :
    /\ pc[t] = "mid"
    /\ wbuf.op = "register"
    /\ wbuf.key \in Pods
    /\ podToTask[wbuf.key] \notin Tasks
    /\ pc[u] = "RLock"

\* C20: when updateStatus panics on a FINISHED status for a Pending task,
\* the tables and the ring are as the call found them, the write lock is
\* free, and every thread that waits for the lock gets through its call.
C20_PanicReleasesLock ==
  /\ [][\A t \in Threads :
          (/\ pc[t] = "panicking"
           /\ wbuf.status = "TASK_FINISHED"
           /\ pc'[t] # "panicking")
            => /\ taskRegistry' = wbuf.pre.taskRegistry
               /\ podToTask' = wbuf.pre.podToTask
               /\ ring' = wbuf.pre.ring
               /\ tasksFinished' = wbuf.pre.tasksFinished
               /\ rw'.writer = 0
               /\ ret' = panicked]_vars
  /\ \A t \in Threads :
       (ret.panicked /\ last.op = "TASK_FINISHED" /\ pc[t] \in {"Lock", "RLock"})
         ~> (pc[t] = "idle")

\* after the panic the Pending task is still held and another call has the
\* write lock
C20_LockTakenAfterPanic ==
  /\ ret.panicked
  /\ last.op = "TASK_FINISHED"
  /\ last.id \in Tasks
  /\ taskRegistry[last.id].State = StatePending
  /\ \E t \in Threads : pc[t] = "locked" /\ rw.writer = t

====
